---- MODULE Spec2Model ----
(***************************************************************************)
(* Billing pipeline of RiggerBackend: fee policy, transaction store,       *)
(* contribution ledger (NGOTransparency), earnings aggregator and the      *)
(* three billing use cases.                                                *)
(*                                                                         *)
(* Money.  Every amount is an integer number of 1/100000 of a currency     *)
(* unit, so that the rates of the code (0.03, 0.05, 0.005, 0.995) applied  *)
(* to an amount given in whole cents are exact.  The model therefore       *)
(* computes in exact decimal arithmetic; the rounding of IEEE doubles is   *)
(* not represented.  Rates are in per mille (0.005 is 5, 0.03 is 30).      *)
(*                                                                         *)
(* Time.  now counts days.  The calendar has months of 30 days and years   *)
(* of 12 months; only the order of dates and the change of month and year  *)
(* matter to the code.                                                     *)
(*                                                                         *)
(* Store.  A save() of a new document validates it against the schema      *)
(* paths the use cases set (type and sourceType enums, amount min 0).      *)
(* paymentMethod.type (PaymentModels.js:40-44) is required inside          *)
(* paymentMethod, which no use case supplies; the model does not apply     *)
(* that validator.  A save() of a loaded document writes the paths the     *)
(* handler modified.  Document arrays cast what is pushed: the stored      *)
(* element is a subdocument built from the pushed object, not the object.  *)
(***************************************************************************)
EXTENDS Integers, Sequences, FiniteSets, TLC

\* ------------------------------------------------------------------ bounds
MaxCalls == 2          \* use-case calls started in one run
MaxTicks == 2          \* clock advances in one run
MaxRenewals == 3       \* overlapping renewal calls in one run
StartDay == 330        \* day of the first state (December of BaseYear)
TickDays == 30         \* days one clock advance adds

\* ------------------------------------------------------------- arithmetic
Unit == 100 * 1000                       \* one currency unit
Cents(c) == c * 1000                     \* c cents
\* amount * (pm / 1000), exact when amount is a whole number of cents
Pct(amount, pm) == (amount \div 1000) * pm + ((amount % 1000) * pm) \div 1000

BaseYear == 2024
MonthOf(d) == ((d \div 30) % 12) + 1                \* Date.getMonth() + 1
YearOf(d) == BaseYear + (d \div 360)                \* Date.getFullYear()
QuarterOf(d) == (MonthOf(d) - 1 + 3) \div 3         \* floor((getMonth() + 3) / 3)


\* ------------------------------------------------------------- fee policy
NgoRate == 5                             \* 0.005
DefaultFeeRate == 30                     \* 0.03

feeStructure ==
  [job_payment |-> 30, recruitment_fee |-> 50, subscription |-> 0, platform_fee |-> 0]

\* feeStructure[transactionType] || 0.03 : a missing key and a rate of 0 are
\* both falsy and fall to the default
feePercentage(transactionType) ==
  IF transactionType \in DOMAIN feeStructure /\ feeStructure[transactionType] # 0
  THEN feeStructure[transactionType]
  ELSE DefaultFeeRate

\* a faulty variant: the net amount forgets the contribution
calculatePlatformFees_noNgoInNet(amount, transactionType) ==
  LET platformFee == Pct(amount, feePercentage(transactionType))
      ngoContribution == Pct(amount, NgoRate)
  IN [platformFee |-> platformFee,
      ngoContribution |-> ngoContribution,
      totalFees |-> platformFee + ngoContribution,
      netAmount |-> amount - platformFee]

\* a faulty variant: the contribution is taken from the amount after the fee
calculatePlatformFees_ngoOfNet(amount, transactionType) ==
  LET platformFee == Pct(amount, feePercentage(transactionType))
      ngoContribution == Pct(amount - platformFee, NgoRate)
  IN [platformFee |-> platformFee,
      ngoContribution |-> ngoContribution,
      totalFees |-> platformFee + ngoContribution,
      netAmount |-> amount - platformFee - ngoContribution]

calculatePlatformFees(amount, transactionType) ==
  LET platformFee == Pct(amount, feePercentage(transactionType))
      ngoContribution == Pct(amount, NgoRate)
  IN [platformFee |-> platformFee,
      ngoContribution |-> ngoContribution,
      totalFees |-> platformFee + ngoContribution,
      netAmount |-> amount - platformFee - ngoContribution]

\* ------------------------------------------------------------------- data
Workers == {"w1", "w2"}
Employer == "e1"
JobIds == {"j1", "j2", "j3", "j4", "j5"}
JobArgs == JobIds \cup {"jX"}            \* jX: no such job
SubIds == {"s1", "s2"}

\* The Job collection (models/Job is outside the sources; the fields are the
\* ones processJobCompletionPayment reads and writes).  actualHours is <<>>
\* when completionDetails.actualHours is absent; paymentDetails holds the
\* _id of the recorded transaction, 0 when there is none.
InitialJobs ==
  [j \in JobIds |->
    CASE j = "j1" -> [status |-> "completed", paymentStatus |-> "pending",
                      hourlyRate |-> 40 * Unit, estimatedHours |-> 10,
                      actualHours |-> <<>>, assignedTo |-> "w1", paymentDetails |-> 0]
      [] j = "j2" -> [status |-> "completed", paymentStatus |-> "pending",
                      hourlyRate |-> 25 * Unit, estimatedHours |-> 8,
                      actualHours |-> <<6>>, assignedTo |-> "w1", paymentDetails |-> 0]
      [] j = "j3" -> [status |-> "completed", paymentStatus |-> "pending",
                      hourlyRate |-> 30 * Unit, estimatedHours |-> 5,
                      actualHours |-> <<0>>, assignedTo |-> "w2", paymentDetails |-> 0]
      [] j = "j4" -> [status |-> "in_progress", paymentStatus |-> "pending",
                      hourlyRate |-> 40 * Unit, estimatedHours |-> 10,
                      actualHours |-> <<>>, assignedTo |-> "w2", paymentDetails |-> 0]
      [] OTHER    -> [status |-> "completed", paymentStatus |-> "paid",
                      hourlyRate |-> 40 * Unit, estimatedHours |-> 10,
                      actualHours |-> <<>>, assignedTo |-> "w2", paymentDetails |-> 0]]

TransactionKinds ==
  {"job_payment", "subscription", "recruitment_fee", "platform_fee", "refund", "chargeback"}
NgoSourceTypes == {"job_payment", "subscription", "platform_fee"}
SubscriptionStatuses == {"active", "past_due", "cancelled", "paused", "trialing"}

\* getSubscriptionPlans()[plan].amount
PlanAmount ==
  [basic |-> Cents(2999), professional |-> Cents(7999),
   enterprise |-> Cents(19999), rigger_premium |-> Cents(4999)]

intervalDays == [monthly |-> 30, quarterly |-> 90, yearly |-> 365]

\* new Subscription({...}) of createSubscriptionBilling; status and the usage
\* counters take the schema defaults
Subscription(planType, interval, date) ==
  [userId |-> Employer, planType |-> planType, amount |-> PlanAmount[planType],
   interval |-> interval, status |-> "active",
   start |-> date, currentPeriodStart |-> date, currentPeriodEnd |-> date + 30,
   cancelled |-> 0, currentPeriodJobs |-> 0, currentPeriodConnections |-> 0]

\* s1 was created 20 days before the first state and has been used since
ExistingSubscription ==
  [Subscription("professional", "monthly", StartDay - 20)
     EXCEPT !.currentPeriodJobs = 3, !.currentPeriodConnections = 1]

\* ------------------------------------------------------------------ state
VARIABLES
  now,        \* the clock, in days
  ticks,      \* clock advances so far
  jobs,       \* Job collection: JobIds -> job
  subs,       \* Subscription collection: SubIds -> <<>> (none) or <<subscription>>
  txns,       \* PaymentTransaction collection, in insertion order; _id = index
  ngo,        \* NGOTransparency collection, in insertion order
  earnings,   \* EarningSummary collection: Workers -> <<>> (none) or <<summary>>
  charges,    \* createPaymentIntent requests sent to the payment processor
  calls       \* the calls made so far, each with its position and its result

vars == <<now, ticks, jobs, subs, txns, ngo, earnings, charges, calls>>

Init ==
  /\ now = StartDay
  /\ ticks = 0
  /\ jobs = InitialJobs
  /\ subs = [s \in SubIds |-> IF s = "s1" THEN <<ExistingSubscription>> ELSE << >>]
  /\ txns = << >>
  /\ ngo = << >>
  /\ earnings = [w \in Workers |-> << >>]
  /\ charges = 0
  /\ calls = << >>

\* --------------------------------------------------------------- documents
NoDoc == << >>

\* new PaymentTransaction({...}) as the three use cases build it
Transaction(type, amount, netAmount, feesPlatform, feesTotal, donationAmount, payer, payee, jobId, subId) ==
  [id |-> 0, createdAt |-> 0,
   type |-> type, amount |-> amount, netAmount |-> netAmount,
   feesPlatform |-> feesPlatform, feesTotal |-> feesTotal,
   donationAmount |-> donationAmount, transparencyTracked |-> TRUE,
   payer |-> payer, payee |-> payee, jobId |-> jobId, subId |-> subId]

\* schema validation of a PaymentTransaction on save()
TransactionValid(doc) ==
  /\ doc.type \in TransactionKinds
  /\ doc.amount >= 0

\* a faulty variant: the schema accepts every record
NgoRecordValid_noSchema(rec) == TRUE

\* schema validation of an NGOTransparency record on save()
NgoRecordValid(rec) ==
  /\ rec.sourceType \in NgoSourceTypes
  /\ rec.transactionId # 0

\* new EarningSummary({ workerId }) : the schema defaults
NewEarningSummary ==
  [totalEarnings |-> 0, totalJobs |-> 0, totalHours |-> 0,
   averageJobValue |-> <<0, 1>>, averageHourlyRate |-> <<0, 1>>,
   monthly |-> << >>, yearly |-> << >>]

\* a call of a use case: its arguments, its position (pc), what it holds in
\* local variables, and its result once pc = "done"
Call(op, arg, pc, amount, hours, draft, snap, success, error) ==
  [op |-> op, arg |-> arg, pc |-> pc, amount |-> amount, hours |-> hours,
   draft |-> draft, snap |-> snap, tx |-> 0, success |-> success, error |-> error]

Running == {c \in 1..Len(calls) : calls[c].pc # "done"}
Quiet == Running = {}
CanStart == Len(calls) < MaxCalls

Finish(c, success, error) ==
  [calls EXCEPT ![c] = [@ EXCEPT !.pc = "done", !.success = success, !.error = error]]
Goto(c, pc) == [calls EXCEPT ![c] = [@ EXCEPT !.pc = pc]]

\* ------------------------------------------------------ earnings aggregator
\* a faulty variant: the key test compares year with month
FindMonthly_yearAgainstMonth(monthly, year, month) ==
  LET hits == {i \in 1..Len(monthly) : monthly[i].year = month /\ monthly[i].month = year}
  IN IF hits = {} THEN 0 ELSE CHOOSE i \in hits : \A k \in hits : i <= k

\* index of the first element of seq satisfying the key test, 0 when none
\* (Array.prototype.find)
FindMonthly(monthly, year, month) ==
  LET hits == {i \in 1..Len(monthly) : monthly[i].year = year /\ monthly[i].month = month}
  IN IF hits = {} THEN 0 ELSE CHOOSE i \in hits : \A k \in hits : i <= k

FindYearly(yearly, year) ==
  LET hits == {i \in 1..Len(yearly) : yearly[i].year = year}
  IN IF hits = {} THEN 0 ELSE CHOOSE i \in hits : \A k \in hits : i <= k

\* monthlyRecord.earnings += amount; .jobs += 1; if (hours) .hours += hours
AddToBucket(b, amount, hours) ==
  [b EXCEPT !.earnings = @ + amount, !.jobs = @ + 1,
            !.hours = IF hours # 0 THEN @ + hours ELSE @]

\* lines 149-158.  monthly is a Mongoose document array: find returns the
\* stored subdocument, and += on it is saved; push stores a subdocument cast
\* from the plain object it is given, so the += that follow on the plain
\* object (lines 155-157) do not reach the stored bucket, which keeps the
\* zeros it was pushed with.
UpsertMonthly(monthly, year, month, amount, hours) ==
  LET i == FindMonthly(monthly, year, month)
  IN IF i = 0
     THEN Append(monthly, [year |-> year, month |-> month,
                           earnings |-> 0, jobs |-> 0, hours |-> 0])
     ELSE [monthly EXCEPT ![i] = AddToBucket(@, amount, hours)]

\* lines 161-170, as for the monthly rollup
UpsertYearly(yearly, year, amount, hours) ==
  LET i == FindYearly(yearly, year)
  IN IF i = 0
     THEN Append(yearly, [year |-> year, earnings |-> 0, jobs |-> 0, hours |-> 0])
     ELSE [yearly EXCEPT ![i] = AddToBucket(@, amount, hours)]

\* a faulty variant: totalJobs is not incremented
ApplyPayment_noJobCount(doc, amount, hours, date) ==
  LET totalEarnings == doc.totalEarnings + amount
      totalHours == IF hours # 0 THEN doc.totalHours + hours ELSE doc.totalHours
  IN [totalEarnings |-> totalEarnings,
      totalJobs |-> doc.totalJobs,
      totalHours |-> totalHours,
      averageJobValue |-> <<totalEarnings, doc.totalJobs>>,
      averageHourlyRate |-> IF hours # 0 THEN <<totalEarnings, totalHours>>
                            ELSE doc.averageHourlyRate,
      monthly |-> UpsertMonthly(doc.monthly, YearOf(date), MonthOf(date), amount, hours),
      yearly |-> UpsertYearly(doc.yearly, YearOf(date), amount, hours)]

\* updateWorkerEarnings, between findOne and save: the document it will save.
\* An average is kept as <<numerator, denominator>>.
ApplyPayment(doc, amount, hours, date) ==
  LET totalEarnings == doc.totalEarnings + amount
      totalJobs == doc.totalJobs + 1
      totalHours == IF hours # 0 THEN doc.totalHours + hours ELSE doc.totalHours
  IN [totalEarnings |-> totalEarnings,
      totalJobs |-> totalJobs,
      totalHours |-> totalHours,
      averageJobValue |-> <<totalEarnings, totalJobs>>,
      averageHourlyRate |-> IF hours # 0 THEN <<totalEarnings, totalHours>>
                            ELSE doc.averageHourlyRate,
      monthly |-> UpsertMonthly(doc.monthly, YearOf(date), MonthOf(date), amount, hours),
      yearly |-> UpsertYearly(doc.yearly, YearOf(date), amount, hours)]

\* EarningSummary.findOne({ workerId }) and the update of the loaded (or new)
\* document; found tells save() whether it updates or inserts
EarnLoad(w, amount, hours) ==
  [found |-> earnings[w] # << >>,
   doc |-> ApplyPayment(IF earnings[w] # << >> THEN earnings[w][1] ELSE NewEarningSummary,
                        amount, hours, now)]

\* earningSummary.save(): an update writes the modified paths of the loaded
\* document; an insert fails on the unique workerId index when a summary
\* for the worker exists by now
EarnSaveOk(w, snap) == snap.found \/ earnings[w] = << >>
EarnSaved(w, snap) ==
  IF EarnSaveOk(w, snap) THEN [earnings EXCEPT ![w] = <<snap.doc>>] ELSE earnings

\* -------------------------------------------------------- contribution ledger
NgoRecord(amount, type, transactionId, date) ==
  [transactionId |-> transactionId,
   year |-> YearOf(date), month |-> MonthOf(date), quarter |-> QuarterOf(date),
   amount |-> Pct(amount, NgoRate), sourceType |-> type,
   published |-> FALSE, createdAt |-> date]

\* trackNGOContribution: the ledger after the call.  A record the schema
\* rejects makes save() throw; the function catches it and returns
\* {success: false}, which no caller reads.
trackNGOContribution(amount, type, transactionId) ==
  LET rec == NgoRecord(amount, type, transactionId, now)
  IN IF NgoRecordValid(rec) THEN Append(ngo, rec) ELSE ngo

\* ------------------------------------------------- processJobCompletionPayment
\* job.completionDetails?.actualHours || job.duration.estimatedHours
EffectiveHours(job) ==
  IF job.actualHours # << >> /\ job.actualHours[1] # 0
  THEN job.actualHours[1]
  ELSE job.estimatedHours

\* the guards of lines 15-21: the error the call ends with, "" to go on
JobRefusal(j) ==
  IF j \notin JobIds \/ jobs[j].status # "completed"
  THEN "Job not found or not completed"
  ELSE IF jobs[j].paymentStatus = "paid"
  THEN "Payment already processed"
  ELSE ""

JobTransaction(j) ==
  LET job == jobs[j]
      paymentAmount == EffectiveHours(job) * job.hourlyRate
      platformFees == calculatePlatformFees(paymentAmount, "job_payment")
  IN Transaction("job_payment", paymentAmount, platformFees.netAmount,
                 platformFees.platformFee, platformFees.totalFees,
                 platformFees.ngoContribution, Employer, job.assignedTo, j, "none")

\* Job.findById, the guards, the fee computation and the transaction draft
ProcessJobCompletionPayment(j) ==
  /\ CanStart
  /\ calls' = Append(calls,
       IF JobRefusal(j) # ""
       THEN Call("job", j, "done", 0, 0, NoDoc, NoDoc, FALSE, JobRefusal(j))
       ELSE Call("job", j, "txnSave", JobTransaction(j).amount,
                 EffectiveHours(jobs[j]), <<JobTransaction(j)>>, NoDoc, FALSE, ""))
  /\ UNCHANGED <<now, ticks, jobs, subs, txns, ngo, earnings, charges>>

\* transaction.save() of the three use cases
TransactionSave(c) ==
  /\ calls[c].pc = "txnSave"
  /\ LET doc == calls[c].draft[1]
         id == Len(txns) + 1
     IN IF TransactionValid(doc)
        THEN /\ txns' = Append(txns, [doc EXCEPT !.id = id, !.createdAt = now])
             /\ calls' = [calls EXCEPT ![c] =
                  [@ EXCEPT !.tx = id,
                            !.pc = IF calls[c].op = "job" THEN "jobSave" ELSE "track"]]
        ELSE /\ txns' = txns
             /\ calls' = Finish(c, FALSE, "PaymentTransaction validation failed")
  /\ UNCHANGED <<now, ticks, jobs, subs, ngo, earnings, charges>>

\* job.paymentStatus = 'processing'; job.paymentDetails = {...}; job.save()
JobSave(c) ==
  /\ calls[c].pc = "jobSave"
  /\ jobs' = [jobs EXCEPT ![calls[c].arg] =
                [@ EXCEPT !.paymentStatus = "processing", !.paymentDetails = calls[c].tx]]
  /\ calls' = Goto(c, "earnFind")
  /\ UNCHANGED <<now, ticks, subs, txns, ngo, earnings, charges>>

\* updateWorkerEarnings(job.assignedTo._id, {amount: netAmount, hours}) up to save()
EarnFindOne(c) ==
  /\ calls[c].pc = "earnFind"
  /\ calls' = [calls EXCEPT ![c] =
       [@ EXCEPT !.pc = "earnSave",
                 !.snap = <<EarnLoad(calls[c].draft[1].payee,
                                     calls[c].draft[1].netAmount, calls[c].hours)>>]]
  /\ UNCHANGED <<now, ticks, jobs, subs, txns, ngo, earnings, charges>>

EarnWorker(c) == IF calls[c].op = "job" THEN calls[c].draft[1].payee ELSE calls[c].arg

\* earningSummary.save().  Inside processJobCompletionPayment the result of
\* updateWorkerEarnings is not read; a direct call returns it.
EarnSave(c) ==
  /\ calls[c].pc = "earnSave"
  /\ earnings' = EarnSaved(EarnWorker(c), calls[c].snap[1])
  /\ calls' = IF calls[c].op = "job"
              THEN Goto(c, "track")
              ELSE IF EarnSaveOk(EarnWorker(c), calls[c].snap[1])
                   THEN Finish(c, TRUE, "")
                   ELSE Finish(c, FALSE, "E11000 duplicate key")
  /\ UNCHANGED <<now, ticks, jobs, subs, txns, ngo, charges>>

\* await trackNGOContribution(amount, type, transaction._id), then return success
TrackNGOContribution(c) ==
  /\ calls[c].pc = "track"
  /\ ngo' = trackNGOContribution(calls[c].amount, calls[c].draft[1].type, calls[c].tx)
  /\ calls' = Finish(c, TRUE, "")
  /\ UNCHANGED <<now, ticks, jobs, subs, txns, earnings, charges>>

\* -------------------------------------------------- processSubscriptionRenewal
\* a faulty variant: a renewal on the very day the period ends is refused
RenewalRefusal_dueLate(sub, date) ==
  IF sub = << >> \/ sub[1].status # "active"
  THEN "Subscription not found or inactive"
  ELSE IF date <= sub[1].currentPeriodEnd
  THEN "Renewal not yet due"
  ELSE ""

\* the guards of lines 100-108 on the subscription findById returned (<<>>
\* when there is none): the error the call ends with, "" to go on
RenewalRefusal(sub, date) ==
  IF sub = << >> \/ sub[1].status # "active"
  THEN "Subscription not found or inactive"
  ELSE IF date < sub[1].currentPeriodEnd
  THEN "Renewal not yet due"
  ELSE ""

\* Subscription.findById and the guards
StartRenewal(s) ==
  /\ calls' = Append(calls,
       IF RenewalRefusal(subs[s], now) # ""
       THEN Call("renewal", s, "done", 0, 0, NoDoc, NoDoc, FALSE,
                 RenewalRefusal(subs[s], now))
       ELSE Call("renewal", s, "charge", subs[s][1].amount, 0, NoDoc, subs[s],
                 FALSE, ""))
  /\ UNCHANGED <<now, ticks, jobs, subs, txns, ngo, earnings, charges>>

ProcessSubscriptionRenewal(s) == CanStart /\ StartRenewal(s)

\* createPaymentIntent(amount, currency, metadata): the processor accepts the
\* request (ok) or the request fails
CreatePaymentIntent(c, ok) ==
  /\ calls[c].pc = "charge"
  /\ charges' = charges + 1
  /\ calls' = Goto(c, IF ok THEN "subSave" ELSE "pastDueSave")
  /\ UNCHANGED <<now, ticks, jobs, subs, txns, ngo, earnings>>

\* a faulty variant: the failed charge also resets the usage counters
PastDueSave_resetsUsage(c) ==
  /\ calls[c].pc = "pastDueSave"
  /\ subs' = [subs EXCEPT ![calls[c].arg] =
                <<[@[1] EXCEPT !.status = "past_due", !.currentPeriodJobs = 0,
                               !.currentPeriodConnections = 0]>>]
  /\ calls' = Finish(c, FALSE, "Payment failed")
  /\ UNCHANGED <<now, ticks, jobs, txns, ngo, earnings, charges>>

\* subscription.status = 'past_due'; subscription.save(); return failure
PastDueSave(c) ==
  /\ calls[c].pc = "pastDueSave"
  /\ subs' = [subs EXCEPT ![calls[c].arg] = <<[@[1] EXCEPT !.status = "past_due"]>>]
  /\ calls' = Finish(c, FALSE, "Payment failed")
  /\ UNCHANGED <<now, ticks, jobs, txns, ngo, earnings, charges>>

\* a faulty variant: every plan is renewed for 30 days
IntervalLength_alwaysMonth(interval) == 30

\* intervalDays[subscription.pricing.interval] || 30
IntervalLength(interval) ==
  IF interval \in DOMAIN intervalDays THEN intervalDays[interval] ELSE 30

RenewalTransaction(s, sub) ==
  Transaction("subscription", sub.amount, Pct(sub.amount, 995), 0, 0,
              Pct(sub.amount, NgoRate), sub.userId, "none", "none", s)

\* the period update of lines 134-140 on the loaded subscription, saved; then
\* the transaction draft of lines 143-161
SubscriptionSave(c) ==
  /\ calls[c].pc = "subSave"
  /\ LET loaded == calls[c].snap[1]
     IN /\ subs' = [subs EXCEPT ![calls[c].arg] =
              <<[@[1] EXCEPT
                   !.currentPeriodStart = loaded.currentPeriodEnd,
                   !.currentPeriodEnd =
                      loaded.currentPeriodEnd + IntervalLength(loaded.interval),
                   !.currentPeriodJobs = 0,
                   !.currentPeriodConnections = 0]>>]
        /\ calls' = [calls EXCEPT ![c] =
              [@ EXCEPT !.pc = "txnSave",
                        !.draft = <<RenewalTransaction(calls[c].arg, loaded)>>]]
  /\ UNCHANGED <<now, ticks, jobs, txns, ngo, earnings, charges>>

\* ------------------------------------------------------- processRecruitmentFee
RecruitmentTransaction(jobId, recruitmentAmount) ==
  LET platformFee == Pct(recruitmentAmount, 30)
      ngoContribution == Pct(recruitmentAmount, NgoRate)
      netAmount == recruitmentAmount - platformFee - ngoContribution
  IN Transaction("recruitment_fee", recruitmentAmount, netAmount,
                 platformFee, platformFee, ngoContribution,
                 Employer, "none", jobId, "none")

RecruitAmounts == {Cents(25000), 0, Cents(0 - 5000)}

ProcessRecruitmentFee(jobId, recruitmentAmount) ==
  /\ CanStart
  /\ calls' = Append(calls,
       Call("recruit", jobId, "txnSave", recruitmentAmount, 0,
            <<RecruitmentTransaction(jobId, recruitmentAmount)>>, NoDoc, FALSE, ""))
  /\ UNCHANGED <<now, ticks, jobs, subs, txns, ngo, earnings, charges>>

\* ------------------------------------------------------ subscription lifecycle
PlanArgs == {"basic"}
IntervalArgs == {"monthly", "quarterly", "yearly"}
UpdateActions == {"pause", "resume", "cancel", "upgrade", "downgrade"}

\* createSubscriptionBilling(userId, plan, paymentMethodId) with a plan of the
\* plan table: the subscription is created and the call returns success
CreateSubscriptionBilling(s, planType, interval) ==
  /\ CanStart
  /\ subs[s] = << >>
  /\ subs' = [subs EXCEPT ![s] = <<Subscription(planType, interval, now)>>]
  /\ calls' = Append(calls, Call("createSub", s, "done", 0, 0, NoDoc, NoDoc, TRUE, ""))
  /\ UNCHANGED <<now, ticks, jobs, txns, ngo, earnings, charges>>

\* the switch of PUT /subscription/:subscriptionId on the loaded subscription
UpdatedSubscription(sub, action, newPlanType, date) ==
  CASE action = "pause"  -> [sub EXCEPT !.status = "paused"]
    [] action = "resume" -> [sub EXCEPT !.status = "active"]
    [] action = "cancel" -> [sub EXCEPT !.status = "cancelled", !.cancelled = date]
    [] OTHER -> [sub EXCEPT !.planType = newPlanType, !.amount = PlanAmount[newPlanType]]

\* PUT /subscription/:subscriptionId on an existing subscription of the user
UpdateSubscription(s, action, newPlanType) ==
  /\ CanStart
  /\ subs[s] # << >>
  /\ subs' = [subs EXCEPT ![s] = <<UpdatedSubscription(@[1], action, newPlanType, now)>>]
  /\ calls' = Append(calls, Call("updateSub", s, "done", 0, 0, NoDoc, NoDoc, TRUE, ""))
  /\ UNCHANGED <<now, ticks, jobs, txns, ngo, earnings, charges>>

Tick ==
  /\ ticks < MaxTicks
  /\ ticks' = ticks + 1
  /\ now' = now + TickDays
  /\ UNCHANGED <<jobs, subs, txns, ngo, earnings, charges, calls>>

\* ------------------------------------------------------- fee policy, called
FeeAmounts == {Cents(1), Cents(7999), 250 * Unit, 400 * Unit}
FeeKinds == TransactionKinds \cup {"tip"}          \* tip: not a kind of the table

\* a call of calculatePlatformFees(amount, transactionType); the returned
\* object is kept in snap
CalculatePlatformFees(amount, transactionType) ==
  /\ CanStart
  /\ calls' = Append(calls,
       Call("fees", transactionType, "done", amount, 0, NoDoc,
            <<calculatePlatformFees(amount, transactionType)>>, TRUE, ""))
  /\ UNCHANGED <<now, ticks, jobs, subs, txns, ngo, earnings, charges>>

\* ------------------------------------------------ updateWorkerEarnings, called
EarnAmounts == {100 * Unit, 250 * Unit}
EarnHours == {0, 5}

\* a direct call of updateWorkerEarnings(workerId, {amount, hours}), up to save()
UpdateWorkerEarnings(w, amount, hours) ==
  /\ CanStart
  /\ calls' = Append(calls,
       Call("earn", w, "earnSave", amount, hours, NoDoc,
            <<EarnLoad(w, amount, hours)>>, FALSE, ""))
  /\ UNCHANGED <<now, ticks, jobs, subs, txns, ngo, earnings, charges>>


\* ------------------------------------------------------ transparency reporting
\* reduce((sum, x) => sum + x, 0) over a sequence of numbers
RECURSIVE SumAmounts(_)
SumAmounts(q) == IF q = << >> THEN 0 ELSE SumAmounts(SubSeq(q, 1, Len(q) - 1)) + q[Len(q)]

AmountsOf(records) == [i \in 1..Len(records) |-> records[i].amount]

\* a faulty variant: the last quarter stops at November
QuarterMonths_shortQ4 == <<{1, 2, 3}, {4, 5, 6}, {7, 8, 9}, {10, 11}>>

QuarterMonths == <<{1, 2, 3}, {4, 5, 6}, {7, 8, 9}, {10, 11, 12}>>

\* calculateQuarterlyBreakdown(monthlyData)
calculateQuarterlyBreakdown(monthlyData) ==
  [q \in 1..4 |->
     LET IsOfQuarter(m) == m.month \in QuarterMonths[q]
         quarterData == SelectSeq(monthlyData, IsOfQuarter)
     IN [quarter |-> q,
         amount |-> SumAmounts(AmountsOf(quarterData)),
         transactions |-> SumAmounts([i \in 1..Len(quarterData) |-> quarterData[i].transactions])]]

\* the report generateTransparencyReport(year) builds from the ledger
generateTransparencyReport(ledger, year) ==
  LET OfYear(r) == r.year = year
      contributions == SelectSeq(ledger, OfYear)
      totalContributions == SumAmounts(AmountsOf(contributions))
      monthlyBreakdown ==
        [i \in 1..12 |->
           LET OfMonth(r) == r.month = i
               monthContributions == SelectSeq(contributions, OfMonth)
           IN [month |-> i,
               amount |-> SumAmounts(AmountsOf(monthContributions)),
               transactions |-> Len(monthContributions)]]
      IsPublished(r) == r.published
  IN [year |-> year,
      totalContributions |-> totalContributions,
      totalTransactions |-> Len(contributions),
      monthlyBreakdown |-> monthlyBreakdown,
      quarterlyBreakdown |-> calculateQuarterlyBreakdown(monthlyBreakdown),
      impactAllocation |-> [workerSafety |-> Pct(totalContributions, 400),
                            trainingPrograms |-> Pct(totalContributions, 300),
                            communitySupport |-> Pct(totalContributions, 200),
                            operations |-> Pct(totalContributions, 100)],
      publicReports |-> Len(SelectSeq(contributions, IsPublished))]

\* Math.abs
Abs(x) == IF x < 0 THEN 0 - x ELSE x

\* a faulty variant: the ledger query leaves out the records of the end date
validateContributions_openEnd(transactions, ledger, startDate, endDate) ==
  LET TxnInRange(t) == /\ t.createdAt >= startDate /\ t.createdAt <= endDate
                       /\ t.transparencyTracked
      RecInRange(r) == r.createdAt >= startDate /\ r.createdAt < endDate
      found == SelectSeq(transactions, TxnInRange)
      ngoRecords == SelectSeq(ledger, RecInRange)
      totalTransactionContributions ==
        SumAmounts([i \in 1..Len(found) |-> found[i].donationAmount])
      totalNGORecordContributions == SumAmounts(AmountsOf(ngoRecords))
      amountsDiffer ==
        Abs(totalTransactionContributions - totalNGORecordContributions) > Cents(1)
      countsDiffer == Len(found) # Len(ngoRecords)
  IN [transactionCount |-> Len(found),
      ngoRecordCount |-> Len(ngoRecords),
      totalTransactionContributions |-> totalTransactionContributions,
      totalNGORecordContributions |-> totalNGORecordContributions,
      discrepancies |->
        (IF amountsDiffer
         THEN <<"Contribution amounts do not match between transactions and NGO records">>
         ELSE << >>)
        \o (IF countsDiffer
            THEN <<"Transaction count does not match NGO record count">>
            ELSE << >>),
      validationPassed |-> ~amountsDiffer /\ ~countsDiffer]

\* the validation object validateContributions(startDate, endDate) builds from
\* the two stores
validateContributions(transactions, ledger, startDate, endDate) ==
  LET TxnInRange(t) == /\ t.createdAt >= startDate /\ t.createdAt <= endDate
                       /\ t.transparencyTracked
      RecInRange(r) == r.createdAt >= startDate /\ r.createdAt <= endDate
      found == SelectSeq(transactions, TxnInRange)
      ngoRecords == SelectSeq(ledger, RecInRange)
      totalTransactionContributions ==
        SumAmounts([i \in 1..Len(found) |-> found[i].donationAmount])
      totalNGORecordContributions == SumAmounts(AmountsOf(ngoRecords))
      amountsDiffer ==
        Abs(totalTransactionContributions - totalNGORecordContributions) > Cents(1)
      countsDiffer == Len(found) # Len(ngoRecords)
  IN [transactionCount |-> Len(found),
      ngoRecordCount |-> Len(ngoRecords),
      totalTransactionContributions |-> totalTransactionContributions,
      totalNGORecordContributions |-> totalNGORecordContributions,
      discrepancies |->
        (IF amountsDiffer
         THEN <<"Contribution amounts do not match between transactions and NGO records">>
         ELSE << >>)
        \o (IF countsDiffer
            THEN <<"Transaction count does not match NGO record count">>
            ELSE << >>),
      validationPassed |-> ~amountsDiffer /\ ~countsDiffer]

ReportYears == {BaseYear, BaseYear + 1}
ReportMonths == {11, 12}
RangeDays == {StartDay - TickDays, StartDay, StartDay + TickDays}

\* a call of generateTransparencyReport(year); the report is kept in snap
GenerateTransparencyReport(year) ==
  /\ CanStart
  /\ calls' = Append(calls,
       Call("report", "ledger", "done", 0, 0, <<[year |-> year]>>,
            <<generateTransparencyReport(ngo, year)>>, TRUE, ""))
  /\ UNCHANGED <<now, ticks, jobs, subs, txns, ngo, earnings, charges>>

\* a call of generatePublicDashboard(year): the report, cut down for the public
GeneratePublicDashboard(year) ==
  /\ CanStart
  /\ LET report == generateTransparencyReport(ngo, year)
     IN calls' = Append(calls,
          Call("dashboard", "ledger", "done", 0, 0, <<[year |-> year]>>,
               <<[year |-> year,
                  totalContributions |-> report.totalContributions,
                  totalTransactions |-> report.totalTransactions,
                  monthlyTrends |-> report.monthlyBreakdown,
                  impactAllocation |-> report.impactAllocation]>>, TRUE, ""))
  /\ UNCHANGED <<now, ticks, jobs, subs, txns, ngo, earnings, charges>>

\* the public report entry of createMonthlyReport: an NGOTransparency record
\* with no transactionId and sourceType 'monthly_summary'
MonthlySummaryRecord(year, month, totalAmount, date) ==
  [transactionId |-> 0, year |-> year, month |-> month,
   quarter |-> (month + 2) \div 3,
   amount |-> totalAmount, sourceType |-> "monthly_summary",
   published |-> TRUE, createdAt |-> date]

\* a call of createMonthlyReport(year, month): the report is built, the
\* public report entry is saved, and the report is returned; when save()
\* rejects the entry the call returns the failure
CreateMonthlyReport(year, month) ==
  /\ CanStart
  /\ LET OfMonth(r) == r.year = year /\ r.month = month
         contributions == SelectSeq(ngo, OfMonth)
         totalAmount == SumAmounts(AmountsOf(contributions))
         publicReport == MonthlySummaryRecord(year, month, totalAmount, now)
         report == [totalContributions |-> totalAmount,
                    transactionCount |-> Len(contributions)]
     IN IF NgoRecordValid(publicReport)
        THEN /\ ngo' = Append(ngo, publicReport)
             /\ calls' = Append(calls,
                  Call("monthly", "ledger", "done", 0, 0,
                       <<[year |-> year, month |-> month]>>, <<report>>, TRUE, ""))
        ELSE /\ ngo' = ngo
             /\ calls' = Append(calls,
                  Call("monthly", "ledger", "done", 0, 0,
                       <<[year |-> year, month |-> month]>>, NoDoc, FALSE,
                       "NGOTransparency validation failed"))
  /\ UNCHANGED <<now, ticks, jobs, subs, txns, earnings, charges>>

\* a faulty variant: the audit adds a record for a count that is short
ValidateContributions_repairs(startDate, endDate) ==
  /\ CanStart
  /\ LET v == validateContributions(txns, ngo, startDate, endDate)
     IN /\ calls' = Append(calls,
             Call("validate", "stores", "done", 0, 0,
                  <<[startDate |-> startDate, endDate |-> endDate]>>, <<v>>, TRUE, ""))
        /\ ngo' = IF v.transactionCount > v.ngoRecordCount
                  THEN Append(ngo, NgoRecord(0, "platform_fee", Len(txns), now))
                  ELSE ngo
  /\ UNCHANGED <<now, ticks, jobs, subs, txns, earnings, charges>>

\* a call of validateContributions(startDate, endDate); the validation object
\* is kept in snap
ValidateContributions(startDate, endDate) ==
  /\ CanStart
  /\ calls' = Append(calls,
       Call("validate", "stores", "done", 0, 0,
            <<[startDate |-> startDate, endDate |-> endDate]>>,
            <<validateContributions(txns, ngo, startDate, endDate)>>, TRUE, ""))
  /\ UNCHANGED <<now, ticks, jobs, subs, txns, ngo, earnings, charges>>


\* ------------------------------------------------ trackNGOContribution, called
TrackKinds == NgoSourceTypes \cup {"recruitment_fee"}
TrackAmounts == {Cents(7999), 400 * Unit}
TrackIds == {1, 2}

\* a direct call of trackNGOContribution(amount, type, transactionId), as a
\* caller retrying the recording makes it; the call returns what save() did
TrackContribution(amount, type, transactionId) ==
  /\ CanStart
  /\ ngo' = trackNGOContribution(amount, type, transactionId)
  /\ calls' = Append(calls,
       [Call("track", type, "done", amount, 0, NoDoc, NoDoc,
             NgoRecordValid(NgoRecord(amount, type, transactionId, now)),
             IF NgoRecordValid(NgoRecord(amount, type, transactionId, now))
             THEN "" ELSE "NGOTransparency validation failed")
          EXCEPT !.tx = transactionId])
  /\ UNCHANGED <<now, ticks, jobs, subs, txns, earnings, charges>>


\* ------------------------------------------------------- store write failures
\* transaction.save() rejected by the store (connection lost, write error):
\* the use case's catch returns the failure
TransactionSaveFails(c) ==
  /\ calls[c].pc = "txnSave"
  /\ calls' = Finish(c, FALSE, "PaymentTransaction save failed")
  /\ UNCHANGED <<now, ticks, jobs, subs, txns, ngo, earnings, charges>>

\* job.save() rejected by the store: the catch of processJobCompletionPayment
\* returns the failure
JobSaveFails(c) ==
  /\ calls[c].pc = "jobSave"
  /\ calls' = Finish(c, FALSE, "Job save failed")
  /\ UNCHANGED <<now, ticks, jobs, subs, txns, ngo, earnings, charges>>

\* subscription.save() of line 140 rejected by the store: the catch of
\* processSubscriptionRenewal returns the failure
SubscriptionSaveFails(c) ==
  /\ calls[c].pc = "subSave"
  /\ calls' = Finish(c, FALSE, "Subscription save failed")
  /\ UNCHANGED <<now, ticks, jobs, subs, txns, ngo, earnings, charges>>

\* ngoRecord.save() rejected by the store: trackNGOContribution returns
\* {success: false}, which no caller reads; the use case returns success
TrackNGOContributionFails(c) ==
  /\ calls[c].pc = "track"
  /\ calls' = Finish(c, TRUE, "")
  /\ UNCHANGED <<now, ticks, jobs, subs, txns, ngo, earnings, charges>>

\* earningSummary.save() rejected by the store: updateWorkerEarnings returns
\* {success: false}; processJobCompletionPayment does not read it and goes on
EarnSaveFails(c) ==
  /\ calls[c].pc = "earnSave"
  /\ calls' = IF calls[c].op = "job"
              THEN Goto(c, "track")
              ELSE Finish(c, FALSE, "EarningSummary save failed")
  /\ UNCHANGED <<now, ticks, jobs, subs, txns, ngo, earnings, charges>>

\* ------------------------------------------------------------- specifications
\* The billing use cases, one call at a time; the payment processor may
\* refuse a charge; every store operation succeeds unless the schema rejects
\* the document.
Next ==
  \/ Quiet /\ Tick
  \/ \E j \in JobArgs : Quiet /\ ProcessJobCompletionPayment(j)
  \/ \E s \in SubIds : Quiet /\ ProcessSubscriptionRenewal(s)
  \/ \E a \in RecruitAmounts : Quiet /\ ProcessRecruitmentFee("j4", a)
  \/ \E s \in SubIds, p \in PlanArgs, i \in IntervalArgs :
        Quiet /\ CreateSubscriptionBilling(s, p, i)
  \/ \E s \in SubIds, a \in UpdateActions :
        Quiet /\ UpdateSubscription(s, a, "enterprise")
  \/ \E c \in Running : TransactionSave(c)
  \/ \E c \in Running : JobSave(c)
  \/ \E c \in Running : EarnFindOne(c)
  \/ \E c \in Running : EarnSave(c)
  \/ \E c \in Running : TrackNGOContribution(c)
  \/ \E c \in Running, ok \in BOOLEAN : CreatePaymentIntent(c, ok)
  \/ \E c \in Running : PastDueSave(c)
  \/ \E c \in Running : SubscriptionSave(c)

Spec == Init /\ [][Next]_vars

\* The fee policy alone: calls of calculatePlatformFees.
NextFees ==
  \E a \in FeeAmounts, k \in FeeKinds : CalculatePlatformFees(a, k)

SpecFees == Init /\ [][NextFees]_vars

\* The billing use cases and the fee policy together.
BillingFeeAmounts == {Cents(7999), 250 * Unit}

NextBilling ==
  \/ Next
  \/ \E a \in BillingFeeAmounts, k \in FeeKinds : Quiet /\ CalculatePlatformFees(a, k)

SpecBilling == Init /\ [][NextBilling]_vars


\* The ledger, the reports and the audit.  The first state is the state after
\* no call, after processJobCompletionPayment(j1) a month ago, or after that
\* call, processRecruitmentFee(j4, 250.00) the same day and
\* processJobCompletionPayment(j2) today.
SeedDay == StartDay - TickDays

Stored(doc, id, date) == [doc EXCEPT !.id = id, !.createdAt = date]

InitAuditPaid ==
  /\ now = StartDay
  /\ ticks = 0
  /\ jobs = [InitialJobs EXCEPT !["j1"] =
               [@ EXCEPT !.paymentStatus = "processing", !.paymentDetails = 1]]
  /\ subs = [s \in SubIds |-> IF s = "s1" THEN <<ExistingSubscription>> ELSE << >>]
  /\ txns = <<Stored(JobTransaction("j1"), 1, SeedDay)>>
  /\ ngo = <<NgoRecord(txns[1].amount, "job_payment", 1, SeedDay)>>
  /\ earnings = [w \in Workers |->
       IF w = "w1"
       THEN <<ApplyPayment(NewEarningSummary, txns[1].netAmount, 10, SeedDay)>>
       ELSE << >>]
  /\ charges = 0
  /\ calls = << >>

InitAuditMixed ==
  /\ now = StartDay
  /\ ticks = 0
  /\ jobs = [InitialJobs EXCEPT
               !["j1"] = [@ EXCEPT !.paymentStatus = "processing", !.paymentDetails = 1],
               !["j2"] = [@ EXCEPT !.paymentStatus = "processing", !.paymentDetails = 3]]
  /\ subs = [s \in SubIds |-> IF s = "s1" THEN <<ExistingSubscription>> ELSE << >>]
  /\ txns = <<Stored(JobTransaction("j1"), 1, SeedDay),
              Stored(RecruitmentTransaction("j4", 250 * Unit), 2, SeedDay),
              Stored(JobTransaction("j2"), 3, StartDay)>>
  /\ ngo = <<NgoRecord(txns[1].amount, "job_payment", 1, SeedDay),
             NgoRecord(txns[3].amount, "job_payment", 3, StartDay)>>
  /\ earnings = [w \in Workers |->
       IF w = "w1"
       THEN <<ApplyPayment(ApplyPayment(NewEarningSummary, txns[1].netAmount, 10, SeedDay),
                           txns[3].netAmount, 6, StartDay)>>
       ELSE << >>]
  /\ charges = 0
  /\ calls = << >>

InitAudit == Init \/ InitAuditPaid \/ InitAuditMixed

NextAudit ==
  \/ Quiet /\ Tick
  \/ Quiet /\ ProcessJobCompletionPayment("j2")
  \/ Quiet /\ ProcessRecruitmentFee("j4", 250 * Unit)
  \/ \E c \in Running : TransactionSave(c)
  \/ \E c \in Running : JobSave(c)
  \/ \E c \in Running : EarnFindOne(c)
  \/ \E c \in Running : EarnSave(c)
  \/ \E c \in Running : TrackNGOContribution(c)
  \/ \E y \in ReportYears : Quiet /\ GenerateTransparencyReport(y)
  \/ \E y \in ReportYears : Quiet /\ GeneratePublicDashboard(y)
  \/ \E y \in ReportYears, m \in ReportMonths : Quiet /\ CreateMonthlyReport(y, m)
  \/ \E d1 \in RangeDays, d2 \in RangeDays :
        Quiet /\ d1 <= d2 /\ ValidateContributions(d1, d2)

SpecAudit == InitAudit /\ [][NextAudit]_vars


\* The ledger under direct calls of trackNGOContribution.
NextLedger ==
  \/ Quiet /\ Tick
  \/ \E a \in TrackAmounts, k \in TrackKinds, t \in TrackIds :
        Quiet /\ TrackContribution(a, k, t)

SpecLedger == Init /\ [][NextLedger]_vars


\* The billing use cases, one call at a time, with store writes that may fail.
NextFaults ==
  \/ Next
  \/ \E c \in Running : TransactionSaveFails(c)
  \/ \E c \in Running : JobSaveFails(c)
  \/ \E c \in Running : EarnSaveFails(c)
  \/ \E c \in Running : SubscriptionSaveFails(c)
  \/ \E c \in Running : TrackNGOContributionFails(c)

SpecFaults == Init /\ [][NextFaults]_vars

\* calls made while every earlier call is still in progress
Overlapping == \A c \in 1..Len(calls) : calls[c].pc # "done"

\* Concurrent processJobCompletionPayment calls: a call starts while the
\* earlier ones are between their store operations.
NextJobConc ==
  \/ \E j \in {"j1", "j2", "j3"} : Overlapping /\ ProcessJobCompletionPayment(j)
  \/ \E c \in Running : TransactionSave(c)
  \/ \E c \in Running : JobSave(c)
  \/ \E c \in Running : EarnFindOne(c)
  \/ \E c \in Running : EarnSave(c)
  \/ \E c \in Running : TrackNGOContribution(c)

SpecJobConc == Init /\ [][NextJobConc]_vars

\* Concurrent processSubscriptionRenewal calls on subscriptions that are due:
\* the clock stands still once the first call has started.
NextRenewConc ==
  \/ calls = << >> /\ Tick
  \/ \E s \in SubIds, p \in PlanArgs, i \in IntervalArgs :
        ticks = 0 /\ CreateSubscriptionBilling(s, p, i)
  \/ \E s \in SubIds :
        /\ \A c \in 1..Len(calls) : calls[c].op = "renewal" => calls[c].pc # "done"
        /\ ProcessSubscriptionRenewal(s)
  \/ \E c \in Running, ok \in BOOLEAN : CreatePaymentIntent(c, ok)
  \/ \E c \in Running : PastDueSave(c)
  \/ \E c \in Running : SubscriptionSave(c)
  \/ \E c \in Running : TransactionSave(c)
  \/ \E c \in Running : TrackNGOContribution(c)

SpecRenewConc == Init /\ [][NextRenewConc]_vars

\* Subscriptions that are created and renewed, the renewals in any
\* interleaving, up to MaxRenewals calls, and never changed otherwise.
NextRenewal ==
  \/ Tick
  \/ \E s \in SubIds, p \in PlanArgs, i \in IntervalArgs : CreateSubscriptionBilling(s, p, i)
  \/ \E s \in SubIds : Len(calls) < MaxRenewals /\ StartRenewal(s)
  \/ \E c \in Running, ok \in BOOLEAN : CreatePaymentIntent(c, ok)
  \/ \E c \in Running : PastDueSave(c)
  \/ \E c \in Running : SubscriptionSave(c)
  \/ \E c \in Running : TransactionSave(c)
  \/ \E c \in Running : TrackNGOContribution(c)

SpecRenewal == Init /\ [][NextRenewal]_vars

\* The earnings aggregator, one call at a time, over changes of month and year.
NextEarn ==
  \/ Quiet /\ Tick
  \/ \E w \in Workers, a \in EarnAmounts, h \in EarnHours :
        Quiet /\ UpdateWorkerEarnings(w, a, h)
  \/ \E c \in Running : EarnSave(c)

SpecEarn == Init /\ [][NextEarn]_vars

\* The earnings aggregator under concurrent requests: calls of
\* updateWorkerEarnings start while others are between findOne and save.
\* w2 has a summary from one earlier payment, w1 has none.
PriorSummary == ApplyPayment(NewEarningSummary, 100 * Unit, 5, StartDay)

InitEarn ==
  /\ now = StartDay
  /\ ticks = 0
  /\ jobs = InitialJobs
  /\ subs = [s \in SubIds |-> IF s = "s1" THEN <<ExistingSubscription>> ELSE << >>]
  /\ txns = << >>
  /\ ngo = << >>
  /\ earnings = [w \in Workers |-> IF w = "w2" THEN <<PriorSummary>> ELSE << >>]
  /\ charges = 0
  /\ calls = << >>

NextEarnConc ==
  \/ \E w \in Workers, a \in EarnAmounts, h \in EarnHours : UpdateWorkerEarnings(w, a, h)
  \/ \E c \in Running : EarnSave(c)

SpecEarnConc == InitEarn /\ [][NextEarnConc]_vars

\* ===================================================================== claims
Done(op) == {c \in 1..Len(calls) : calls[c].op = op /\ calls[c].pc = "done"}
Succeeded(op) == {c \in Done(op) : calls[c].success}
TxnIds == 1..Len(txns)
NgoOf(t) == {k \in 1..Len(ngo) : ngo[k].transactionId = t}

RECURSIVE SumOver(_, _)
\* the sum of f[x] over the finite set S
SumOver(S, f) ==
  IF S = {} THEN 0
  ELSE LET x == CHOOSE y \in S : TRUE IN f[x] + SumOver(S \ {x}, f)

TotalEarnings(w) == IF earnings[w] = << >> THEN 0 ELSE earnings[w][1].totalEarnings
TotalJobs(w) == IF earnings[w] = << >> THEN 0 ELSE earnings[w][1].totalJobs

C2_NoLostUpdates ==
  Quiet =>
    \A w \in Workers :
      LET mine == {c \in Done("earn") : calls[c].arg = w}
          before == IF w = "w2" THEN PriorSummary ELSE NewEarningSummary
      IN /\ TotalEarnings(w) =
              before.totalEarnings + SumOver(mine, [c \in 1..Len(calls) |-> calls[c].amount])
         /\ TotalJobs(w) = before.totalJobs + Cardinality(mine)

C5_FeesSplitTheAmount ==
  \A c \in Done("fees") :
    LET r == calls[c].snap[1]
    IN calls[c].amount > 0 =>
         /\ r.platformFee + r.ngoContribution + r.netAmount = calls[c].amount
         /\ r.totalFees = r.platformFee + r.ngoContribution
         /\ r.netAmount = calls[c].amount - r.totalFees

C5_Witness ==
  \E c \in Done("fees") :
    /\ calls[c].arg = "tip"
    /\ calls[c].amount = Cents(7999)
    /\ calls[c].snap[1].netAmount = Cents(7999) - 239970 - 39995

\* the rate table of the fee policy as it is documented, in per mille
DocumentedFeeRate(kind) ==
  CASE kind = "job_payment" -> 30
    [] kind = "recruitment_fee" -> 50
    [] kind = "subscription" -> 0
    [] kind = "platform_fee" -> 0
    [] OTHER -> 30

\* C6: calculatePlatformFees charges 3% for job_payment, 5% for
\* recruitment_fee, 0% for subscription and platform_fee, 3% for any other kind.
C6_FeeRateByKind ==
  \A c \in Done("fees") :
    calls[c].snap[1].platformFee = Pct(calls[c].amount, DocumentedFeeRate(calls[c].arg))

\* C7: the contribution is 0.5% of the gross amount: in the object
\* calculatePlatformFees returns, in the donationAmount of every transaction
\* of the three use cases, and in the amount of every NGOTransparency record.
C7_ContributionIsHalfPercent ==
  /\ \A c \in Done("fees") :
       calls[c].snap[1].ngoContribution * 1000 = calls[c].amount * 5
  /\ \A t \in TxnIds : txns[t].donationAmount * 200 = txns[t].amount
  /\ \A k \in 1..Len(ngo) :
       ngo[k].amount * 200 = txns[ngo[k].transactionId].amount

C7_Witness ==
  /\ \E c \in Done("fees") : calls[c].arg = "subscription"
  /\ \E k \in 1..Len(ngo) : ngo[k].sourceType = "subscription" /\ ngo[k].amount = 39995

C10_RenewalGuard ==
  [][ /\ \A s \in SubIds :
           ( /\ Len(calls') = Len(calls) + 1
             /\ calls'[Len(calls')].op = "renewal"
             /\ calls'[Len(calls')].arg = s ) =>
             LET c == calls'[Len(calls')]
                 due == /\ subs[s] # << >>
                        /\ subs[s][1].status = "active"
                        /\ now >= subs[s][1].currentPeriodEnd
             IN IF due
                THEN c.pc = "charge"
                ELSE /\ c.pc = "done" /\ ~c.success /\ c.error # ""
                     /\ charges' = charges /\ txns' = txns /\ ngo' = ngo
                     /\ subs' = subs
      /\ charges' # charges =>
           \E c \in Running : calls[c].op = "renewal" /\ calls[c].pc = "charge"
    ]_vars

C10_Witness ==
  /\ \E c \in Done("renewal") : calls[c].error = "Renewal not yet due"
  /\ \E c \in Done("renewal") : calls[c].error = "Subscription not found or inactive"
  /\ charges = 0 /\ txns = << >>

\* C11: when the charge request of a renewal fails, the call sets the
\* subscription's status to past_due and returns a failure with a message;
\* the period dates, the usage counters and every other field of the
\* subscription are as before, and from the charge request to the return no
\* transaction and no contribution record is created.
C11_ChargeFailureMarksPastDue ==
  [][ \A c \in Running :
        /\ (calls[c].pc = "charge" /\ calls'[c].pc = "pastDueSave") =>
             (txns' = txns /\ ngo' = ngo /\ subs' = subs)
        /\ calls[c].pc = "pastDueSave" =>
          LET s == calls[c].arg
          IN /\ txns' = txns /\ ngo' = ngo
             /\ calls'[c].pc = "done" =>
                  /\ ~calls'[c].success /\ calls'[c].error # "" /\ calls'[c].tx = 0
                  /\ subs'[s] = <<[subs[s][1] EXCEPT !.status = "past_due"]>>
                  /\ subs'[s][1].currentPeriodStart = calls[c].snap[1].currentPeriodStart
                  /\ subs'[s][1].currentPeriodEnd = calls[c].snap[1].currentPeriodEnd
                  /\ subs'[s][1].currentPeriodJobs = calls[c].snap[1].currentPeriodJobs
                  /\ subs'[s][1].currentPeriodConnections =
                       calls[c].snap[1].currentPeriodConnections
                  /\ \A o \in SubIds \ {s} : subs'[o] = subs[o]
    ]_vars

C11_Witness ==
  \E c \in Done("renewal") :
    /\ calls[c].error = "Payment failed"
    /\ calls[c].arg = "s1"
    /\ subs["s1"][1].status = "past_due"
    /\ subs["s1"][1].currentPeriodJobs = 3
    /\ charges = 1 /\ txns = << >> /\ ngo = << >>

\* the plan intervals as they are documented, in days
DocumentedInterval(interval) ==
  CASE interval = "monthly" -> 30
    [] interval = "quarterly" -> 90
    [] interval = "yearly" -> 365

SummaryOf(w) == IF earnings[w] = << >> THEN NewEarningSummary ELSE earnings[w][1]

\* C16: every stored EarningSummary has totalEarnings = sum of
\* monthly[*].earnings = sum of yearly[*].earnings and totalJobs = sum of
\* monthly[*].jobs = sum of yearly[*].jobs.
C16_TotalsEqualRollups ==
  \A w \in Workers :
    LET e == SummaryOf(w)
        M == 1..Len(e.monthly)
        Y == 1..Len(e.yearly)
    IN /\ e.totalEarnings = SumOver(M, [i \in M |-> e.monthly[i].earnings])
       /\ e.totalEarnings = SumOver(Y, [i \in Y |-> e.yearly[i].earnings])
       /\ e.totalJobs = SumOver(M, [i \in M |-> e.monthly[i].jobs])
       /\ e.totalJobs = SumOver(Y, [i \in Y |-> e.yearly[i].jobs])

\* C17: every stored EarningSummary has at most one monthly bucket per
\* (year, month) and at most one yearly bucket per year.
C17_OneBucketPerKey ==
  \A w \in Workers :
    LET e == SummaryOf(w)
    IN /\ \A i, k \in 1..Len(e.monthly) :
            (e.monthly[i].year = e.monthly[k].year /\ e.monthly[i].month = e.monthly[k].month)
              => i = k
       /\ \A i, k \in 1..Len(e.yearly) : e.yearly[i].year = e.yearly[k].year => i = k

C17_Witness ==
  /\ Cardinality({c \in Succeeded("earn") : calls[c].arg = "w1"}) = 2
  /\ Len(SummaryOf("w1").monthly) = 1
  /\ Len(SummaryOf("w1").yearly) = 1
  /\ SummaryOf("w1").monthly[1].jobs > 0

\* C20: every stored EarningSummary with at least one job has
\* averageJobValue = totalEarnings / totalJobs, averageHourlyRate =
\* totalEarnings / totalHours when totalHours > 0, and averageHourlyRate = 0
\* while totalHours = 0.  (An average <<n, d>> equals p / q when n * q = p * d.)
C20_AveragesFollowTotals ==
  \A w \in Workers :
    earnings[w] # << >> =>
      LET e == earnings[w][1]
      IN /\ e.averageJobValue[1] * e.totalJobs = e.totalEarnings * e.averageJobValue[2]
         /\ e.averageJobValue[2] # 0
         /\ e.totalHours > 0 =>
              /\ e.averageHourlyRate[2] # 0
              /\ e.averageHourlyRate[1] * e.totalHours
                   = e.totalEarnings * e.averageHourlyRate[2]
         /\ e.totalHours = 0 => e.averageHourlyRate[1] = 0

\* the call a step has just appended, and whether the step appended one of op
Appended(op) == Len(calls') = Len(calls) + 1 /\ calls'[Len(calls')].op = op
RemoveAt(q, k) == SubSeq(q, 1, k - 1) \o SubSeq(q, k + 1, Len(q))

\* C14: for a call of validateContributions(start, end), with T the tracked
\* transactions and N the ledger records created in the range: if every
\* transaction of T has a record of N for it with its contribution, the
\* result has validationPassed = true and no discrepancies, and without any
\* one of those records the result would have validationPassed = false and a
\* discrepancy; validationPassed is true exactly when discrepancies is empty;
\* a discrepancy is reported exactly when the totals differ by more than 0.01
\* or the counts differ.
C14_AuditReconciles ==
  [][ Appended("validate") =>
        LET call == calls'[Len(calls')]
            v == call.snap[1]
            startDate == call.draft[1].startDate
            endDate == call.draft[1].endDate
            T == {t \in TxnIds : /\ txns[t].transparencyTracked
                                 /\ txns[t].createdAt >= startDate
                                 /\ txns[t].createdAt <= endDate}
            N == {k \in 1..Len(ngo) : /\ ngo[k].createdAt >= startDate
                                      /\ ngo[k].createdAt <= endDate}
            RecordsOf(t) == {k \in N : /\ ngo[k].transactionId = t
                                       /\ ngo[k].amount = txns[t].donationAmount}
            allMatched == \A t \in T : RecordsOf(t) # {}
            sumT == SumOver(T, [t \in TxnIds |-> txns[t].donationAmount])
            sumN == SumOver(N, [k \in 1..Len(ngo) |-> ngo[k].amount])
        IN /\ call.success
           /\ allMatched => (v.validationPassed /\ v.discrepancies = << >>)
           /\ allMatched =>
                \A t \in T : \A k \in RecordsOf(t) :
                  LET r == validateContributions(txns, RemoveAt(ngo, k), startDate, endDate)
                  IN ~r.validationPassed /\ r.discrepancies # << >>
           /\ v.validationPassed <=> (v.discrepancies = << >>)
           /\ (v.discrepancies # << >>) <=>
                (Abs(sumT - sumN) > Cents(1) \/ Cardinality(T) # Cardinality(N))
    ]_vars

C14_Witness ==
  /\ \E c \in Done("validate") :
       /\ calls[c].snap[1].validationPassed
       /\ calls[c].snap[1].transactionCount = 1
  /\ \E c \in Done("validate") :
       /\ ~calls[c].snap[1].validationPassed
       /\ calls[c].snap[1].transactionCount = 3

\* C15: in every report of generateTransparencyReport, totalContributions is
\* the sum of the twelve monthly amounts and the sum of the four quarterly
\* amounts, and totalTransactions is the sum of the monthly and of the
\* quarterly transaction counts.
C15_ReportTotalsAgree ==
  \A c \in Done("report") :
    LET r == calls[c].snap[1]
    IN /\ Len(r.monthlyBreakdown) = 12 /\ Len(r.quarterlyBreakdown) = 4
       /\ r.totalContributions =
            SumOver(1..12, [i \in 1..12 |-> r.monthlyBreakdown[i].amount])
       /\ r.totalContributions =
            SumOver(1..4, [i \in 1..4 |-> r.quarterlyBreakdown[i].amount])
       /\ r.totalTransactions =
            SumOver(1..12, [i \in 1..12 |-> r.monthlyBreakdown[i].transactions])
       /\ r.totalTransactions =
            SumOver(1..4, [i \in 1..4 |-> r.quarterlyBreakdown[i].transactions])

C15_Witness ==
  \E c \in Done("report") :
    /\ calls[c].snap[1].totalTransactions = 3
    /\ calls[c].snap[1].monthlyBreakdown[12].transactions = 2
    /\ calls[c].snap[1].monthlyBreakdown[11].amount = 2 * Unit

\* C18: a call of validateContributions leaves the transaction store and the
\* ledger as they were, whether or not it reports a mismatch.
C18_AuditWritesNothing ==
  [][ Appended("validate") => (txns' = txns /\ ngo' = ngo) ]_vars

C18_Witness ==
  \E c \in Done("validate") :
    /\ calls[c].snap[1].transactionCount = 2
    /\ calls[c].snap[1].ngoRecordCount = 1
    /\ Len(txns) = 3 /\ Len(ngo) = 2

C21_RecordingIsIdempotent ==
  \A t \in TrackIds : Cardinality({k \in 1..Len(ngo) : ngo[k].transactionId = t}) <= 1

C23_ActualHoursWhenRecorded ==
  \A c \in 1..Len(calls) :
    (calls[c].op = "job" /\ calls[c].draft # << >>) =>
      LET job == jobs[calls[c].arg]
          h == IF job.actualHours # << >> THEN job.actualHours[1] ELSE job.estimatedHours
      IN /\ calls[c].draft[1].amount = h * job.hourlyRate
         /\ calls[c].hours = h

JobPayments(j) == {t \in TxnIds : txns[t].type = "job_payment" /\ txns[t].jobId = j}

Renewing(s) ==
  {c \in 1..Len(calls) :
     calls[c].op = "renewal" /\ calls[c].arg = s /\ calls[c].snap # NoDoc}

\* C25: with processSubscriptionRenewal calls on one due, active subscription
\* running concurrently, at most one charge is requested for it, it has at
\* most one subscription transaction, and a call that has saved the period
\* leaves currentPeriodEnd one plan interval after the end it loaded.
C25_ConcurrentRenewalsChargeOnce ==
  \A s \in SubIds :
    /\ Cardinality({c \in Renewing(s) : calls[c].pc # "charge"}) <= 1
    /\ Cardinality({t \in TxnIds : txns[t].type = "subscription" /\ txns[t].subId = s}) <= 1
    /\ \A c \in Renewing(s) :
         calls[c].pc \in {"txnSave", "track"} \/ (calls[c].pc = "done" /\ calls[c].success)
           => subs[s][1].currentPeriodEnd =
                calls[c].snap[1].currentPeriodEnd
                  + DocumentedInterval(calls[c].snap[1].interval)

\* C26: when no call is in progress and the last call was a renewal that went
\* past the guards, the period differs from the one the call loaded only if
\* the call persisted its subscription transaction; and if the call returned
\* a failure other than the refused charge, the period dates and the usage
\* counters are the ones it loaded.
C26_RenewalAllOrNothing ==
  Quiet =>
    \A c \in Done("renewal") :
      (c = Len(calls) /\ calls[c].snap # NoDoc) =>
        LET sub == subs[calls[c].arg][1]
            loaded == calls[c].snap[1]
        IN /\ sub.currentPeriodEnd # loaded.currentPeriodEnd => calls[c].tx # 0
           /\ (~calls[c].success /\ calls[c].error # "Payment failed") =>
                /\ sub.currentPeriodStart = loaded.currentPeriodStart
                /\ sub.currentPeriodEnd = loaded.currentPeriodEnd
                /\ sub.currentPeriodJobs = loaded.currentPeriodJobs
                /\ sub.currentPeriodConnections = loaded.currentPeriodConnections

C29_PeriodsWellFormed ==
  [][ \A s \in SubIds :
        subs'[s] # << >> =>
          /\ subs'[s][1].currentPeriodStart < subs'[s][1].currentPeriodEnd
          /\ subs[s] # << >> =>
               subs'[s][1].currentPeriodEnd >= subs[s][1].currentPeriodEnd
    ]_vars

\* C30: no step makes a cancelled subscription active again (and so none is
\* charged by a renewal, which charges active subscriptions only).
C30_CancelledStaysCancelled ==
  [][ \A s \in SubIds :
        (subs[s] # << >> /\ subs[s][1].status = "cancelled") =>
          (subs'[s] # << >> /\ subs'[s][1].status # "active")
    ]_vars

====
